---- MODULE Spec2Model ----
(***************************************************************************)
(* Model of login_monitor.py: one invocation of the monitor script.  The   *)
(* script validates its configuration, then for every configured URL runs  *)
(* an advisory HEAD probe, a retry loop of login probes, compares the      *)
(* final status with the status persisted in last_status.txt, consults the *)
(* alert throttle, dispatches alerts through retry_alert and persists the  *)
(* status.  Everything is wrapped in one top-level exception handler.      *)
(*                                                                         *)
(* Time is counted in whole seconds.  MAX_RETRIES is taken to be at least  *)
(* 1 (the loop at line 385 leaves current_status = None otherwise).        *)
(*                                                                         *)
(* Four specifications share the definitions:                              *)
(*   Spec       one invocation of the script;                              *)
(*   SpecReach  the same with http_status kept while its endpoint is       *)
(*              processed;                                                 *)
(*   SpecUnits  should_send_alert, read/write_last_status, check_login and *)
(*              exponential_backoff called on their own;                   *)
(*   SpecRuns   the script invoked again and again on the state file it    *)
(*              left.                                                      *)
(***************************************************************************)
EXTENDS Integers, Sequences, FiniteSets, TLC

\* ------------------------------------------------------------- bounds
MaxUrls == 2              \* longest LOGIN_URLS list explored

\* ---------------------------------------------------------- constants
DEFAULT_MAX_RETRIES == 3  \* line 77
ALERT_MAX_RETRIES == 3    \* retry_alert's max_retries default, line 330
BACKOFF_CAP == 60         \* line 125
None == -1                \* Python's None where an integer is expected

Statuses == {"success", "login_failed", "unreachable"}
FailureStatuses == {"login_failed", "unreachable"}
Urls == {"", "u"}         \* an empty list entry (skipped) or a URL

VARIABLES
    \* configuration, fixed by the environment at start-up
    LOGIN_URLS, required_vars_set, MAX_RETRIES, ALERT_THROTTLE_PERIOD,
    SEND_RECOVERY_ALERTS, WEBEX_WEBHOOK,
    \* program state
    pc, idx, http_status, attempt, current_status, detail, previous_status,
    last_alert_time, state_file, now, exit_code, dispatch, alert_attempt,
    \* history kept for the properties
    alerts, email_calls, webex_calls, email_result, webex_result, probes,
    probe_sleep, conn_errors, reads, writes, restored, gate, finals,
    file_at_start,
    \* observations outside a single run: in SpecUnits what the last call of
    \* a function was given and returned, in SpecRuns the failures not yet
    \* alerted across invocations; no action of a run changes it
    obs

cfgvars == <<LOGIN_URLS, required_vars_set, MAX_RETRIES, ALERT_THROTTLE_PERIOD,
             SEND_RECOVERY_ALERTS, WEBEX_WEBHOOK, file_at_start, obs>>
histvars == <<alerts, email_calls, webex_calls, email_result, webex_result,
              probes, probe_sleep, conn_errors, reads, writes, restored, gate,
              finals>>
vars == <<LOGIN_URLS, required_vars_set, MAX_RETRIES, ALERT_THROTTLE_PERIOD,
          SEND_RECOVERY_ALERTS, WEBEX_WEBHOOK,
          pc, idx, http_status, attempt, current_status, detail,
          previous_status, last_alert_time, state_file, now, exit_code,
          dispatch, alert_attempt,
          alerts, email_calls, webex_calls, email_result, webex_result,
          probes, probe_sleep, conn_errors, reads, writes, restored, gate,
          finals, file_at_start, obs>>

\* ------------------------------------------------------ pure functions
RECURSIVE Pow2(_)
Pow2(n) == IF n = 0 THEN 1 ELSE 2 * Pow2(n - 1)

Min(a, b) == IF a < b THEN a ELSE b

\* variant of exponential_backoff without the cap
exponential_backoff_NoCap(n) == Pow2(n)

\* exponential_backoff(attempt): min(2 ** attempt, 60)
exponential_backoff(n) == Min(Pow2(n), BACKOFF_CAP)

\* variant of read_last_status with a failure status as the default
read_last_status_FailureDefault(file) ==
    IF file = "absent" THEN "login_failed" ELSE file

\* what STATE_FILE can hold: nothing ("absent": the file does not exist), a
\* status as write_last_status leaves it, or a status followed by a newline
\* as an editor or `echo` leaves it
FileTexts == {"absent", "success", "login_failed", "unreachable",
              "success\n", "login_failed\n", "unreachable\n"}

\* str.strip() on the texts above (line 167)
strip(text) ==
    CASE text = "success\n" -> "success"
      [] text = "login_failed\n" -> "login_failed"
      [] text = "unreachable\n" -> "unreachable"
      [] OTHER -> text

\* variant of read_last_status without the default of line 168
read_last_status_NoDefault(file) ==
    IF file = "absent" THEN "None" ELSE strip(file)

\* read_last_status(): the file's content stripped, or "success" when the
\* file is absent
read_last_status(file) == IF file = "absent" THEN "success" ELSE strip(file)

\* variant of write_last_status that stores the status read at line 393
write_last_status_Previous(status) == previous_status

\* write_last_status(status): the file's content afterwards
write_last_status(status) == status

\* variant of the throttle test with >= in place of >
ThrottleAllows_AtLeast(last, t) ==
    last = None \/ t - last >= ALERT_THROTTLE_PERIOD

\* variant of the throttle test that never throttles
ThrottleAllows_Always(last, t) == TRUE

\* the test of should_send_alert() at time t with last_alert_time = last
ThrottleAllows(last, t) ==
    last = None \/ t - last > ALERT_THROTTLE_PERIOD

\* variant in which should_send_alert() is called before the comparison
ThrottleConsulted_Always(cur, prev) == TRUE

\* line 396: should_send_alert() is called only when the statuses differ
\* (Python's `and` evaluates its right operand only if the left one holds)
ThrottleConsulted(cur, prev) == cur # prev

\* variant of the gate that does not compare the statuses
GateOpen_NoCompare(cur, prev, last, t) == ThrottleAllows(last, t)

\* the transition gate of line 396 (the throttle is consulted only when the
\* statuses differ: Python's `and` short-circuits)
GateOpen(cur, prev, last, t) == cur # prev /\ ThrottleAllows(last, t)

\* variant of the mapping that ignores SEND_RECOVERY_ALERTS
DispatchesAlert_Always(status, recovery) == TRUE

\* status-to-action mapping of lines 399-410: does this branch call retry_alert
DispatchesAlert(status, recovery) ==
    \/ status = "login_failed"
    \/ status = "unreachable"
    \/ status = "success" /\ recovery

\* send_email(subject, body): re-raises SMTPException (any other exception
\* of the SMTP session passes through the same way), lines 127-142
SmtpResults == {"ok", "SMTPException"}
send_email_raises(res) == res # "ok"

\* send_webex_alert(body): logs a non-200 reply and a RequestException and
\* returns normally in every case (lines 145-157)
WebexResults == {"200", "non200", "RequestException"}
send_webex_alert_raises(res) == FALSE

\* variant of retry_alert that goes on for as long as the function raises
retry_alert_Forever(raised, att) ==
    IF ~raised THEN "return" ELSE "retry"

\* variant of retry_alert that re-raises once the attempts are used up
retry_alert_Reraise(raised, att) ==
    IF ~raised THEN "return"
    ELSE IF att + 1 < ALERT_MAX_RETRIES THEN "retry" ELSE "raise"

\* retry_alert: what the loop of lines 331-337 does after attempt att of the
\* wrapped function: "return", "retry" (after the sleep) or "exhausted"
\* (after the sleep, the loop ends and the function returns None)
retry_alert(raised, att) ==
    IF ~raised THEN "return"
    ELSE IF att + 1 < ALERT_MAX_RETRIES THEN "retry" ELSE "exhausted"

\* check_login(url): classification of one probe (lines 244-320).
\* get, post: the result of the request ("ok" or the exception raised);
\* kw: FAILED_KEYWORD in response.text; code: response.status_code;
\* curl: how the curl subprocess of debug_with_curl ended.
\* The value is <<status, detail>>, or <<"raise", exception>> when an
\* exception leaves the function.
TransportResults == {"ok", "Timeout", "ConnectionError", "RequestException"}
SUCCESS_STATUS_CODES == {200, 201, 202, 204}
StatusCodes == {200, 403, 500}
CurlResults == {"ok", "OSError"}

\* variant without the handler of line 314: only the two named kinds are caught
TransportOutcome_NamedKindsOnly(exc) ==
    CASE exc = "Timeout" -> <<"unreachable", "Request timed out">>
      [] exc = "ConnectionError" -> <<"unreachable", "Connection error">>
      [] OTHER -> <<"raise", exc>>

\* the three except clauses of lines 300-320, in their order
TransportOutcome(exc) ==
    CASE exc = "Timeout" -> <<"unreachable", "Request timed out">>
      [] exc = "ConnectionError" -> <<"unreachable", "Connection error">>
      [] exc = "RequestException" -> <<"unreachable", "str(e)">>
      [] OTHER -> <<"raise", exc>>

\* debug_with_curl (lines 174-203): whatever the subprocess does, the
\* exception is caught and logged, and the function returns
debug_with_curl(curl) == "returned"

\* variant of line 280 with `and` in place of `or`
LoginRejected_Both(kw, code) == kw /\ code \notin SUCCESS_STATUS_CODES

\* the test of line 280
LoginRejected(kw, code) == kw \/ code \notin SUCCESS_STATUS_CODES

check_login(get, post, kw, code, curl) ==
    IF get # "ok" THEN TransportOutcome(get)
    ELSE IF post # "ok" THEN TransportOutcome(post)
    ELSE IF LoginRejected(kw, code)
         THEN IF debug_with_curl(curl) = "returned"
              THEN <<"login_failed", "Status">>
              ELSE <<"raise", debug_with_curl(curl)>>
         ELSE <<"success", "Login OK">>

\* what one probe can meet: the POST is sent only if the GET returned, a
\* response is read only if the POST returned, and curl is run only for a
\* response that is rejected
ProbeInputs ==
    {<<get, "ok", FALSE, 200, "ok">> : get \in TransportResults \ {"ok"}}
    \cup {<<"ok", post, FALSE, 200, "ok">> : post \in TransportResults \ {"ok"}}
    \cup {<<"ok", "ok", kw, code, curl>> :
              kw \in BOOLEAN, code \in StatusCodes, curl \in CurlResults}

\* ---------------------------------------------------------------- Init
\* ALERT_THROTTLE_PERIOD is a whole number of minutes (line 81), held in
\* seconds: no throttling, and a window no run of MaxUrls endpoints outlasts
ThrottlePeriods == {0, 60}
\* history of the comparison of line 396 for the endpoint being processed:
\* whether the statuses differed, whether the throttle test passed then, the
\* time of the comparison and last_alert_time before it
NoGate == [done |-> FALSE, changed |-> FALSE, open |-> FALSE, t |-> 0,
           last |-> None]
NoObs == [op |-> "none"]

UrlLists == UNION {[1..n -> Urls] : n \in 1..MaxUrls}

\* the configuration read from the environment and the state of the script
\* when line 359 is reached
StartOfRun ==
    /\ LOGIN_URLS \in UrlLists
    /\ required_vars_set \in BOOLEAN
    /\ MAX_RETRIES \in 1..DEFAULT_MAX_RETRIES
    /\ ALERT_THROTTLE_PERIOD \in ThrottlePeriods
    /\ SEND_RECOVERY_ALERTS \in BOOLEAN
    /\ WEBEX_WEBHOOK \in BOOLEAN
    /\ state_file \in {"absent"} \cup Statuses
    /\ file_at_start = state_file
    /\ pc = "validate"
    /\ idx = 1
    /\ http_status = None
    /\ attempt = 0
    /\ current_status = "None"
    /\ detail = ""
    /\ previous_status = "None"
    /\ last_alert_time = None
    /\ now = 0
    /\ exit_code = None
    /\ dispatch = "none"
    /\ alert_attempt = 0
    /\ alerts = <<>>
    /\ email_calls = 0
    /\ webex_calls = 0
    /\ email_result = "none"
    /\ webex_result = "none"
    /\ probes = 0
    /\ probe_sleep = 0
    /\ reads = 0
    /\ writes = 0
    /\ restored = FALSE
    /\ conn_errors = 0
    /\ gate = NoGate
    /\ finals = <<>>

Init == StartOfRun /\ obs = NoObs

\* ------------------------------------------------------------- actions
\* one probe (its requests and the logging around them) is counted as one
\* second of wall-clock time, so that datetime.now() advances between two
\* calls of should_send_alert()
ProbeTime == 1

\* validate_env_vars(), lines 99-110: exit(1) raises SystemExit, which the
\* handler of line 417 (except Exception) does not catch
Validate ==
    /\ pc = "validate"
    /\ IF (\A i \in 1..Len(LOGIN_URLS) : LOGIN_URLS[i] = "") \/ ~required_vars_set
       THEN pc' = "exit" /\ exit_code' = 1
       ELSE pc' = "loop" /\ exit_code' = exit_code
    /\ UNCHANGED <<cfgvars, histvars, idx, http_status, attempt, current_status,
                   detail, previous_status, last_alert_time, state_file, now,
                   dispatch, alert_attempt>>

\* the for loop of line 369 is exhausted: the script ends, exit status 0
LoopEnd ==
    /\ pc = "loop"
    /\ idx > Len(LOGIN_URLS)
    /\ pc' = "exit"
    /\ exit_code' = 0
    /\ UNCHANGED <<cfgvars, histvars, idx, http_status, attempt, current_status,
                   detail, previous_status, last_alert_time, state_file, now,
                   dispatch, alert_attempt>>

\* lines 370-371: an empty entry of LOGIN_URLS is skipped
SkipEmptyUrl ==
    /\ pc = "loop"
    /\ idx <= Len(LOGIN_URLS)
    /\ LOGIN_URLS[idx] = ""
    /\ idx' = idx + 1
    /\ UNCHANGED <<cfgvars, histvars, pc, http_status, attempt, current_status,
                   detail, previous_status, last_alert_time, state_file, now,
                   exit_code, dispatch, alert_attempt>>

\* variant that gives up on an endpoint reported down
AfterHttpCheck_SkipWhenDown(http) ==
    IF http = None \/ http >= 500 THEN "read" ELSE "probe"

\* lines 378-385: the test of http_status guards a warning only, and the
\* retry loop is entered whatever it was
AfterHttpCheck(http) == "probe"

\* lines 373-383: the advisory HEAD probe, then the loop variables are reset
CheckHttpStatus ==
    /\ pc = "loop"
    /\ idx <= Len(LOGIN_URLS)
    /\ LOGIN_URLS[idx] # ""
    /\ \E r \in {None, 200, 500} : http_status' = r
    /\ current_status' = "None"
    /\ detail' = ""
    /\ attempt' = 0
    /\ pc' = AfterHttpCheck(http_status')
    /\ probes' = 0
    /\ probe_sleep' = 0
    /\ reads' = 0
    /\ writes' = 0
    /\ restored' = FALSE
    /\ email_calls' = 0
    /\ webex_calls' = 0
    /\ email_result' = "none"
    /\ webex_result' = "none"
    /\ conn_errors' = 0
    /\ gate' = NoGate
    /\ UNCHANGED <<cfgvars, idx, previous_status, last_alert_time, state_file,
                   now, exit_code, dispatch, alert_attempt, alerts, finals>>

\* variant of the loop that retries an unreachable endpoint only
LoopBreaks_UnlessUnreachable(status) == status # "unreachable"

\* the break of lines 387-388
LoopBreaks(status) == status = "success"

\* one iteration of the retry loop, lines 385-391: the probe, the break on
\* success, otherwise the sleep of exponential_backoff(attempt).
\* http_status is read at line 378 only; it is dead once the loop starts and
\* is cleared by the first iteration, unless keep_http asks to keep it for
\* the length of the endpoint.  An exception that leaves check_login reaches
\* the handler of line 417.
CheckLoginStep(keep_http) ==
    /\ pc = "probe"
    /\ attempt < MAX_RETRIES
    /\ \E in \in ProbeInputs :
         LET out == check_login(in[1], in[2], in[3], in[4], in[5])
             d == ProbeTime IN
           /\ probes' = probes + 1
           /\ http_status' = IF keep_http THEN http_status ELSE None
           /\ conn_errors' = conn_errors +
                               (IF "ConnectionError" \in {in[1], in[2]} THEN 1 ELSE 0)
           /\ current_status' = IF out[1] = "raise" THEN current_status ELSE out[1]
           /\ detail' = IF out[1] = "raise" THEN detail ELSE out[2]
           /\ IF out[1] = "raise"
              THEN /\ now' = now + d
                   /\ pc' = "handler"
                   /\ UNCHANGED <<attempt, probe_sleep>>
              ELSE IF LoopBreaks(out[1])
              THEN /\ now' = now + d
                   /\ pc' = "read"
                   /\ UNCHANGED <<attempt, probe_sleep>>
              ELSE /\ now' = now + d + exponential_backoff(attempt)
                   /\ probe_sleep' = probe_sleep + exponential_backoff(attempt)
                   /\ attempt' = attempt + 1
                   /\ pc' = IF attempt + 1 < MAX_RETRIES THEN "probe" ELSE "read"
           /\ finals' = IF pc' = "read" THEN Append(finals, out[1]) ELSE finals
    /\ UNCHANGED <<cfgvars, idx, previous_status, last_alert_time,
                   state_file, exit_code, dispatch, alert_attempt, alerts,
                   email_calls, webex_calls, email_result, webex_result, reads,
                   writes, restored, gate>>

CheckLogin == CheckLoginStep(FALSE)

\* lines 393-394: read_last_status() and write_log(); opening either file can
\* raise OSError, which reaches the handler of line 417
ReadLastStatus ==
    /\ pc = "read"
    /\ \E ok \in BOOLEAN :
         IF ok
         THEN /\ previous_status' = read_last_status(state_file)
              /\ reads' = reads + 1
              /\ pc' = "gate"
         ELSE /\ pc' = "handler"
              /\ UNCHANGED <<previous_status, reads>>
    /\ UNCHANGED <<cfgvars, idx, http_status, attempt, current_status, detail,
                   last_alert_time, state_file, now, exit_code, dispatch,
                   alert_attempt, alerts, email_calls, webex_calls, email_result,
                   webex_result, probes, probe_sleep, conn_errors, writes,
                   restored, gate, finals>>

EndpointAlert == [kind |-> "endpoint", ep |-> idx, status |-> current_status,
                  t |-> now]
CriticalAlert == [kind |-> "critical", ep |-> idx, status |-> "critical",
                  t |-> now]

\* lines 396-413: the transition gate; should_send_alert() sets
\* last_alert_time when it returns True, whatever branch follows
Gate ==
    /\ pc = "gate"
    /\ gate' = [done |-> TRUE,
                changed |-> (current_status # previous_status),
                open |-> (last_alert_time = None
                          \/ now - last_alert_time > ALERT_THROTTLE_PERIOD),
                t |-> now,
                last |-> last_alert_time]
    /\ last_alert_time' =
           IF ThrottleConsulted(current_status, previous_status)
              /\ ThrottleAllows(last_alert_time, now)
           THEN now ELSE last_alert_time
    /\ IF GateOpen(current_status, previous_status, last_alert_time, now)
       THEN /\ IF DispatchesAlert(current_status, SEND_RECOVERY_ALERTS)
               THEN /\ pc' = "email"
                    /\ dispatch' = "endpoint"
                    /\ alert_attempt' = 0
                    /\ alerts' = Append(alerts, EndpointAlert)
                    /\ UNCHANGED restored
               ELSE /\ pc' = "persist"
                    /\ restored' = (current_status = "success")
                    /\ UNCHANGED <<dispatch, alert_attempt, alerts>>
       ELSE /\ pc' = "persist"
            /\ UNCHANGED <<dispatch, alert_attempt, alerts, restored>>
    /\ UNCHANGED <<cfgvars, idx, http_status, attempt, current_status, detail,
                   previous_status, state_file, now, exit_code, email_calls,
                   webex_calls, email_result, webex_result, probes, probe_sleep,
                   conn_errors, reads, writes, finals>>

\* where control goes when a retry_alert call is over
AfterRetryAlert(outcome, next) ==
    CASE outcome = "retry" ->
           /\ now' = now + exponential_backoff(alert_attempt)
           /\ alert_attempt' = alert_attempt + 1
           /\ UNCHANGED <<pc, exit_code, dispatch, restored>>
      [] outcome = "raise" ->
           \* an exception leaving retry_alert: into the handler, or out of it
           /\ alert_attempt' = 0
           /\ IF dispatch = "critical"
              THEN pc' = "exit" /\ exit_code' = 1
              ELSE pc' = "handler" /\ exit_code' = exit_code
           /\ UNCHANGED <<now, dispatch, restored>>
      [] OTHER ->
           /\ now' = IF outcome = "exhausted"
                     THEN now + exponential_backoff(alert_attempt) ELSE now
           /\ alert_attempt' = 0
           /\ IF next = "webex"
              THEN /\ pc' = "webex"
                   /\ UNCHANGED <<exit_code, dispatch, restored>>
              ELSE IF dispatch = "critical"
              THEN \* line 435 is the last statement: the script ends normally
                   /\ pc' = "exit"
                   /\ exit_code' = 0
                   /\ dispatch' = "none"
                   /\ UNCHANGED restored
              ELSE \* line 411 logs "Login restored." in the success branch
                   /\ pc' = "persist"
                   /\ dispatch' = "none"
                   /\ restored' = (current_status = "success")
                   /\ UNCHANGED exit_code

\* one attempt of retry_alert(send_email, ...), lines 400, 404, 409, 434
RetryAlertEmail ==
    /\ pc = "email"
    /\ \E res \in SmtpResults :
         /\ email_result' = res
         /\ email_calls' = email_calls + 1
         /\ AfterRetryAlert(retry_alert(send_email_raises(res), alert_attempt),
                            "webex")
    /\ UNCHANGED <<cfgvars, idx, http_status, attempt, current_status, detail,
                   previous_status, last_alert_time, state_file, alerts,
                   webex_calls, webex_result, probes, probe_sleep, conn_errors,
                   reads, writes, gate, finals>>

\* one attempt of retry_alert(send_webex_alert, ...), lines 401, 405, 410, 435;
\* without WEBEX_WEBHOOK the function only logs that it is skipped
RetryAlertWebex ==
    /\ pc = "webex"
    /\ \E res \in (IF WEBEX_WEBHOOK THEN WebexResults ELSE {"skipped"}) :
         /\ webex_result' = res
         /\ webex_calls' = webex_calls + 1
         /\ AfterRetryAlert(
              retry_alert(WEBEX_WEBHOOK /\ send_webex_alert_raises(res),
                          alert_attempt), "done")
    /\ UNCHANGED <<cfgvars, idx, http_status, attempt, current_status, detail,
                   previous_status, last_alert_time, state_file, alerts,
                   email_calls, email_result, probes, probe_sleep, conn_errors,
                   reads, writes, gate, finals>>

\* line 415: write_last_status(); opening the file can raise OSError
Persist ==
    /\ pc = "persist"
    /\ \E ok \in BOOLEAN :
         IF ok
         THEN /\ state_file' = write_last_status(current_status)
              /\ writes' = writes + 1
              /\ idx' = idx + 1
              /\ pc' = "loop"
         ELSE /\ pc' = "handler"
              /\ UNCHANGED <<state_file, writes, idx>>
    /\ UNCHANGED <<cfgvars, http_status, attempt, current_status, detail,
                   previous_status, last_alert_time, now, exit_code, dispatch,
                   alert_attempt, alerts, email_calls, webex_calls, email_result,
                   webex_result, probes, probe_sleep, conn_errors, reads,
                   restored, gate, finals>>

\* lines 417-435: the top-level handler sends the critical alert through
\* retry_alert without consulting should_send_alert().  The handler reads
\* none of the loop's variables (url, current_status, ...): they are dead
\* from here on and are cleared.
Handler ==
    /\ pc = "handler"
    /\ pc' = "email"
    /\ dispatch' = "critical"
    /\ alert_attempt' = 0
    /\ alerts' = Append(alerts, CriticalAlert)
    /\ email_calls' = 0
    /\ webex_calls' = 0
    /\ email_result' = "none"
    /\ webex_result' = "none"
    /\ http_status' = None
    /\ attempt' = 0
    /\ current_status' = "None"
    /\ detail' = ""
    /\ previous_status' = "None"
    /\ probes' = 0
    /\ probe_sleep' = 0
    /\ reads' = 0
    /\ writes' = 0
    /\ restored' = FALSE
    /\ conn_errors' = 0
    /\ gate' = NoGate
    /\ UNCHANGED <<cfgvars, idx, last_alert_time, state_file, now, exit_code,
                   finals>>

Next ==
    \/ Validate
    \/ LoopEnd
    \/ SkipEmptyUrl
    \/ CheckHttpStatus
    \/ CheckLogin
    \/ ReadLastStatus
    \/ Gate
    \/ RetryAlertEmail
    \/ RetryAlertWebex
    \/ Persist
    \/ Handler

Spec == Init /\ [][Next]_vars

TypeOK ==
    /\ pc \in {"validate", "loop", "probe", "read", "gate", "email", "webex",
               "persist", "handler", "exit"}
    /\ current_status \in Statuses \cup {"None"}
    /\ state_file \in Statuses \cup {"absent"}
    /\ exit_code \in {None, 0, 1}
    /\ attempt \in 0..MAX_RETRIES
    /\ alert_attempt \in 0..(ALERT_MAX_RETRIES - 1)

\* ------------------------------------------------------------ properties
\* the endpoint in hand has passed the gate and any dispatch (line 415 next)
AtPersist == pc = "persist"
\* send_email was called for the endpoint in hand: an alert was attempted
AlertAttempted == email_calls > 0
HandlerRan == \E i \in 1..Len(alerts) : alerts[i].kind = "critical"
ConfigInvalid ==
    (\A i \in 1..Len(LOGIN_URLS) : LOGIN_URLS[i] = "") \/ ~required_vars_set
EndpointAlerts == {i \in 1..Len(alerts) : alerts[i].kind = "endpoint"}
\* with a window of zero no instant lies within the window of another
WithinWindow(t1, t2) ==
    ALERT_THROTTLE_PERIOD > 0 /\ t2 - t1 <= ALERT_THROTTLE_PERIOD

\* C1 (as stated): for every endpoint an alert is attempted if and only if
\* its final status differs from the persisted previous status and the
\* throttle allows at that moment.
C1_GatingAsStated ==
    AtPersist => (AlertAttempted <=> (gate.changed /\ gate.open))

\* C1 (amended): an alert is attempted if and only if the final status
\* differs from the previous status, the throttle allows at that moment, and
\* the status is a failure status or recovery alerts are enabled; with equal
\* statuses no alert is attempted whatever the throttle state.
C1_TransitionGating ==
    AtPersist =>
        (AlertAttempted <=>
            /\ gate.changed
            /\ gate.open
            /\ (current_status \in FailureStatuses \/ SEND_RECOVERY_ALERTS))

C1_Witness ==
    /\ AtPersist
    /\ AlertAttempted
    /\ gate.changed
    /\ gate.open
    /\ current_status \in FailureStatuses
    /\ Len(alerts) = 1

\* C2 (as stated): within one run no two alerts of any kind, the critical
\* alert of the top-level handler included, lie within one throttle window.
C2_NoAlertWithinWindowAsStated ==
    \A i, j \in 1..Len(alerts) :
        i < j => ~WithinWindow(alerts[i].t, alerts[j].t)

\* C2 (amended): within one run any two endpoint alerts are more than the
\* throttle window apart, counted from the moments should_send_alert()
\* allowed them, for any endpoints and statuses; the critical alert of the
\* top-level handler is not throttled.
C2_EndpointAlertsSpaced ==
    \A i, j \in EndpointAlerts :
        i < j => alerts[j].t - alerts[i].t > ALERT_THROTTLE_PERIOD

C2_Witness ==
    /\ Cardinality(EndpointAlerts) >= 2
    /\ pc = "exit"

\* C3: a failure status that differs from the previous status is alerted
\* unless an alert was dispatched earlier in the run within the throttle
\* window; a transition that dispatched nothing suppresses no later alert.
C3_FailureAlertedUnlessDispatchedBefore ==
    (AtPersist /\ gate.changed /\ current_status \in FailureStatuses) =>
        \/ AlertAttempted
        \/ \E i \in EndpointAlerts :
              /\ alerts[i].ep # idx
              /\ gate.t - alerts[i].t <= ALERT_THROTTLE_PERIOD

\* C4: with 3 attempts configured and a connection error on every attempt
\* the final status is unreachable, the retry loop has slept
\* delay(0) + delay(1) in total, and exactly one alert is attempted.
C4_ScenarioC ==
    (MAX_RETRIES = 3 /\ conn_errors = 3) =>
        /\ current_status = "unreachable"
        /\ probe_sleep = exponential_backoff(0) + exponential_backoff(1)
        /\ (AtPersist /\ gate.changed /\ gate.open) =>
               Cardinality({i \in EndpointAlerts : alerts[i].ep = idx}) = 1

\* C5: at the end of a dispatch, a channel that succeeded at attempt k was
\* attempted k times and a channel whose delivery kept failing was attempted
\* 3 times, email and chat webhook alike.
C5_EveryChannelRetried ==
    (AtPersist /\ AlertAttempted) =>
        /\ email_result = "ok" => email_calls \in 1..ALERT_MAX_RETRIES
        /\ email_result = "SMTPException" => email_calls = ALERT_MAX_RETRIES
        /\ webex_result \in {"non200", "RequestException"} =>
               webex_calls = ALERT_MAX_RETRIES

\* C6: no delivery failure leaves the dispatch: the handler is entered only
\* outside a dispatch, the webhook is attempted whatever the email attempts
\* did, and after the dispatch the status is written (unless the write
\* itself fails) and the loop goes on.
C6_ChannelFailuresContained ==
    /\ pc = "handler" => dispatch = "none"
    /\ (AtPersist /\ AlertAttempted) => webex_calls > 0
    /\ (pc = "loop" /\ AlertAttempted) =>
           /\ webex_calls > 0
           /\ writes = 1
           /\ state_file = current_status

C6_Witness ==
    /\ pc = "loop"
    /\ idx <= Len(LOGIN_URLS)
    /\ email_calls = ALERT_MAX_RETRIES
    /\ email_result = "SMTPException"
    /\ webex_result = "RequestException"
    /\ state_file = current_status

\* C7: the exit status is 0 exactly on normal completion; it is non-zero
\* when validation fails and when the top-level handler has run.
C7_ExitStatus ==
    pc = "exit" => (exit_code = 0 <=> (~ConfigInvalid /\ ~HandlerRan))

\* C8 (as stated): on a recovery (success after a failure status) an alert is
\* dispatched only with recovery alerts enabled; with them disabled no
\* channel is attempted, the restoration is logged and success is persisted.
C8_RecoveryAsStated ==
    /\ (AtPersist /\ current_status = "success"
          /\ previous_status \in FailureStatuses) =>
           /\ AlertAttempted => SEND_RECOVERY_ALERTS
           /\ ~SEND_RECOVERY_ALERTS =>
                  (email_calls = 0 /\ webex_calls = 0 /\ restored)
    /\ (pc = "loop" /\ writes = 1 /\ current_status = "success") =>
           state_file = "success"

\* C8 (amended): as stated, except that the restoration is logged exactly
\* when the throttle allows at that moment: a recovery that the throttle
\* denies is logged as "no status change or alert throttled".
C8_RecoveryAlerts ==
    /\ (AtPersist /\ current_status = "success"
          /\ previous_status \in FailureStatuses) =>
           /\ AlertAttempted => SEND_RECOVERY_ALERTS
           /\ ~SEND_RECOVERY_ALERTS =>
                  (email_calls = 0 /\ webex_calls = 0 /\ (restored <=> gate.open))
    /\ (pc = "loop" /\ writes = 1 /\ current_status = "success") =>
           state_file = "success"

C8_Witness ==
    /\ pc = "loop"
    /\ writes = 1
    /\ current_status = "success"
    /\ previous_status = "login_failed"
    /\ ~SEND_RECOVERY_ALERTS
    /\ restored
    /\ email_calls = 0
    /\ state_file = "success"

\* C9: per endpoint the state file is read once, after the retry loop, and
\* written once, after the gate and any dispatch; the value written is the
\* endpoint's final status in every case, so a completed run leaves the
\* final status of the last endpoint processed.
C9_ReadOnceWriteOnce ==
    /\ pc \in {"probe", "read"} => (reads = 0 /\ writes = 0)
    /\ (pc \in {"gate", "persist"}
          \/ (pc \in {"email", "webex"} /\ dispatch = "endpoint")) =>
           (reads = 1 /\ writes = 0)
    /\ (pc = "loop" /\ finals # <<>>) =>
           /\ reads = 1
           /\ writes = 1
           /\ state_file = finals[Len(finals)]
    /\ (pc = "exit" /\ ~HandlerRan /\ finals # <<>>) =>
           state_file = finals[Len(finals)]

C9_Witness ==
    /\ pc = "exit"
    /\ ~HandlerRan
    /\ Len(finals) = 2
    /\ finals[1] = "login_failed"
    /\ finals[2] = "unreachable"
    /\ Len(alerts) = 1
    /\ state_file = "unreachable"

\* C10: starting from an absent state file, the first endpoint of the run
\* whose final status is a failure status is a transition and an alert is
\* attempted for it, whatever number of endpoints came before it.
C10_FirstFailureAlerted ==
    (/\ AtPersist
     /\ file_at_start = "absent"
     /\ current_status \in FailureStatuses
     /\ \A k \in 1..(Len(finals) - 1) : finals[k] = "success") =>
        /\ gate.changed
        /\ AlertAttempted
        /\ \E i \in EndpointAlerts : alerts[i].ep = idx

C10_Witness ==
    /\ AtPersist
    /\ file_at_start = "absent"
    /\ current_status \in FailureStatuses
    /\ Len(finals) = 2
    /\ finals[1] = "success"
    /\ AlertAttempted

\* ------------------------------------------ functions exercised on their own
\* SpecUnits calls one function at a time, from the states its inputs can be
\* in; pc names the function under call and obs holds what the last call was
\* given and what it returned.
UnitNames == {"should_send_alert", "status_file", "check_login",
              "exponential_backoff"}
\* calls of should_send_alert() on one gate, and how far its clock runs
MaxCalls == 2
MaxClock == 122
\* the time that can pass between two calls: a second less than the window
\* of ThrottlePeriods, the window itself, and a second more
ClockSteps == {59, 60, 61}
\* the largest attempt index handed to exponential_backoff
MaxAttempt == 8
\* status codes a response can carry
ResponseCodes == SUCCESS_STATUS_CODES \cup {401, 403, 500, 503}

runvars == <<LOGIN_URLS, required_vars_set, MAX_RETRIES, SEND_RECOVERY_ALERTS,
             WEBEX_WEBHOOK, file_at_start, pc, idx, http_status, attempt,
             current_status, detail, exit_code, dispatch, alert_attempt,
             alerts, email_calls, webex_calls, email_result, webex_result,
             probes, probe_sleep, conn_errors, reads, writes, restored, gate,
             finals>>

InitUnits ==
    /\ pc \in UnitNames
    /\ ALERT_THROTTLE_PERIOD \in
          (IF pc = "should_send_alert" THEN ThrottlePeriods ELSE {0})
    /\ state_file \in (IF pc = "status_file" THEN FileTexts ELSE {"absent"})
    /\ LOGIN_URLS = <<"u">>
    /\ required_vars_set = TRUE
    /\ MAX_RETRIES = DEFAULT_MAX_RETRIES
    /\ SEND_RECOVERY_ALERTS = FALSE
    /\ WEBEX_WEBHOOK = FALSE
    /\ file_at_start = state_file
    /\ idx = 1
    /\ http_status = None
    /\ attempt = 0
    /\ current_status = "None"
    /\ detail = ""
    /\ previous_status = "None"
    /\ last_alert_time = None
    /\ now = 0
    /\ exit_code = None
    /\ dispatch = "none"
    /\ alert_attempt = 0
    /\ alerts = <<>>
    /\ email_calls = 0
    /\ webex_calls = 0
    /\ email_result = "none"
    /\ webex_result = "none"
    /\ probes = 0
    /\ probe_sleep = 0
    /\ conn_errors = 0
    /\ reads = 0
    /\ writes = 0
    /\ restored = FALSE
    /\ gate = NoGate
    /\ finals = <<>>
    /\ obs = NoObs

\* should_send_alert() (lines 322-328) called at the time `now`
CallShouldSendAlert ==
    /\ pc = "should_send_alert"
    /\ LET n == IF obs.op = "none" THEN 0 ELSE obs.n
           allowed == ThrottleAllows(last_alert_time, now) IN
         /\ n < MaxCalls
         /\ last_alert_time' = IF allowed THEN now ELSE last_alert_time
         /\ obs' = [op |-> "should_send_alert", n |-> n + 1,
                    first |-> IF n = 0 THEN now ELSE obs.first,
                    t |-> now, before |-> last_alert_time,
                    allowed |-> allowed]
    /\ UNCHANGED <<runvars, ALERT_THROTTLE_PERIOD, state_file,
                   previous_status, now>>

\* the clock read at line 324 moves on between two calls
ClockAdvance ==
    /\ pc = "should_send_alert"
    /\ \E d \in ClockSteps :
         /\ now + d <= MaxClock
         /\ now' = now + d
    /\ UNCHANGED <<runvars, ALERT_THROTTLE_PERIOD, state_file,
                   previous_status, last_alert_time, obs>>

\* write_last_status(status) (lines 170-172)
CallWriteLastStatus ==
    /\ pc = "status_file"
    /\ \E status \in Statuses :
         /\ state_file' = write_last_status(status)
         /\ obs' = [op |-> "write_last_status", status |-> status]
    /\ UNCHANGED <<runvars, ALERT_THROTTLE_PERIOD, previous_status,
                   last_alert_time, now>>

\* read_last_status() (lines 164-168); obs keeps the status written by the
\* call before it, if that was a write
CallReadLastStatus ==
    /\ pc = "status_file"
    /\ previous_status' = read_last_status(state_file)
    /\ obs' = [op |-> "read_last_status", file |-> state_file,
               written |-> IF obs.op = "write_last_status"
                           THEN obs.status ELSE "None",
               result |-> read_last_status(state_file)]
    /\ UNCHANGED <<runvars, ALERT_THROTTLE_PERIOD, state_file,
                   last_alert_time, now>>

\* check_login(url) (lines 239-320) on every combination of what the two
\* requests, the response and the curl subprocess can do
CallCheckLogin ==
    /\ pc = "check_login"
    /\ \E get \in TransportResults, post \in TransportResults,
          kw \in BOOLEAN, code \in ResponseCodes, curl \in CurlResults :
         obs' = [op |-> "check_login", get |-> get, post |-> post, kw |-> kw,
                 code |-> code, curl |-> curl,
                 out |-> check_login(get, post, kw, code, curl)]
    /\ UNCHANGED <<runvars, ALERT_THROTTLE_PERIOD, state_file,
                   previous_status, last_alert_time, now>>

\* exponential_backoff(attempt) (lines 124-125) for two successive attempts
CallExponentialBackoff ==
    /\ pc = "exponential_backoff"
    /\ \E n \in 0..MaxAttempt :
         obs' = [op |-> "exponential_backoff", n |-> n,
                 delay |-> exponential_backoff(n),
                 next |-> exponential_backoff(n + 1)]
    /\ UNCHANGED <<runvars, ALERT_THROTTLE_PERIOD, state_file,
                   previous_status, last_alert_time, now>>

NextUnits ==
    \/ CallShouldSendAlert
    \/ ClockAdvance
    \/ CallWriteLastStatus
    \/ CallReadLastStatus
    \/ CallCheckLogin
    \/ CallExponentialBackoff

SpecUnits == InitUnits /\ [][NextUnits]_vars

\* C11: a call of should_send_alert() returns True exactly when no call was
\* allowed before or more than ALERT_THROTTLE_PERIOD has passed since the last
\* allowed call; the first call on a fresh gate is allowed, a second one less
\* than the period later is denied, and one more than the period later is
\* allowed; last_alert_time becomes the time of the call when it is allowed
\* and is left as it was when it is denied.
C11_ThrottleGate ==
    obs.op = "should_send_alert" =>
        /\ obs.allowed <=> (obs.before = None
                            \/ obs.t - obs.before > ALERT_THROTTLE_PERIOD)
        /\ last_alert_time = IF obs.allowed THEN obs.t ELSE obs.before
        /\ obs.n = 1 => obs.before = None /\ obs.allowed
        /\ obs.n > 1 => obs.before # None
        /\ (obs.n = 2 /\ obs.t - obs.first < ALERT_THROTTLE_PERIOD)
              => ~obs.allowed
        /\ (obs.n = 2 /\ obs.t - obs.first > ALERT_THROTTLE_PERIOD)
              => obs.allowed

\* a second call exactly one period after the first is denied, and the
\* timestamp of the first is kept
C11_Witness ==
    /\ obs.op = "should_send_alert"
    /\ obs.n = 2
    /\ ALERT_THROTTLE_PERIOD > 0
    /\ obs.t - obs.first = ALERT_THROTTLE_PERIOD
    /\ ~obs.allowed
    /\ last_alert_time = obs.first
\* C12: when both requests return, check_login returns login_failed exactly
\* when FAILED_KEYWORD is in the body or the status code is outside
\* SUCCESS_STATUS_CODES, and success otherwise, whatever the curl subprocess
\* of debug_with_curl does.
C12_ProbeClassification ==
    (obs.op = "check_login" /\ obs.get = "ok" /\ obs.post = "ok") =>
        /\ obs.out[1] \in {"login_failed", "success"}
        /\ obs.out[1] = "login_failed"
              <=> (obs.kw \/ obs.code \notin {200, 201, 202, 204})
        /\ obs.out[1] = "success" => obs.out[2] = "Login OK"

\* an accepted status code with the keyword in the body, and curl failing
C12_Witness ==
    /\ obs.op = "check_login"
    /\ obs.get = "ok" /\ obs.post = "ok"
    /\ obs.kw /\ obs.code = 200 /\ obs.curl = "OSError"
    /\ obs.out[1] = "login_failed"

\* C13: a timeout, a connection error or any other request exception, raised
\* by the GET or by the POST, makes check_login return unreachable; no
\* exception leaves the function, and the kind of failure decides the detail
\* text only.
C13_TransportFailureUnreachable ==
    LET kind == IF obs.get # "ok" THEN obs.get ELSE obs.post IN
    (obs.op = "check_login" /\ (obs.get # "ok" \/ obs.post # "ok")) =>
        /\ obs.out[1] = "unreachable"
        /\ obs.out[2] = CASE kind = "Timeout" -> "Request timed out"
                          [] kind = "ConnectionError" -> "Connection error"
                          [] OTHER -> "str(e)"

\* the GET returns and the POST raises an exception of neither named kind
C13_Witness ==
    /\ obs.op = "check_login"
    /\ obs.get = "ok" /\ obs.post = "RequestException"
    /\ obs.out = <<"unreachable", "str(e)">>
\* C15: read_last_status() called right after write_last_status(s) returns s,
\* for each of the three statuses, and read_last_status() returns success
\* when the state file does not exist.
C15_StoreRoundTrip ==
    obs.op = "read_last_status" =>
        /\ obs.written \in Statuses => obs.result = obs.written
        /\ obs.file = "absent" => obs.result = "success"
        /\ previous_status = obs.result

\* a failure status is written where no file was, and read back
C15_Witness ==
    /\ obs.op = "read_last_status"
    /\ file_at_start = "absent"
    /\ obs.written = "unreachable"
    /\ obs.result = "unreachable"

\* C16: exponential_backoff(n) is 2^n while that is below 60 and 60 from
\* then on; the delay of attempt n+1 is never below the delay of attempt n,
\* and once the delay is 60 it stays 60.
C16_BackoffCapped ==
    obs.op = "exponential_backoff" =>
        /\ obs.delay = (IF 2^(obs.n) < 60 THEN 2^(obs.n) ELSE 60)
        /\ obs.delay <= obs.next
        /\ obs.delay = 60 => obs.next = 60
        /\ obs.n >= 6 <=> obs.delay = 60

\* the first capped delay: 2^6 = 64 seconds cut to 60
C16_Witness ==
    /\ obs.op = "exponential_backoff"
    /\ obs.n = 6
    /\ obs.delay = 60
    /\ obs.next = 60
\* ----------------------------------------- the advisory reachability probe
\* SpecReach is the run of Spec with http_status kept while its endpoint is
\* processed, so that what the endpoint's processing produces can be set
\* against the result of check_http_status.
CheckLoginKeepingHttpStatus == CheckLoginStep(TRUE)

NextReach ==
    \/ Validate
    \/ LoopEnd
    \/ SkipEmptyUrl
    \/ CheckHttpStatus
    \/ CheckLoginKeepingHttpStatus
    \/ ReadLastStatus
    \/ Gate
    \/ RetryAlertEmail
    \/ RetryAlertWebex
    \/ Persist
    \/ Handler

\* the Webex channel plays no part in what is compared: it is left unset
InitReach == Init /\ ~WEBEX_WEBHOOK

SpecReach == InitReach /\ [][NextReach]_vars

\* the endpoint under processing has left its retry loop
PastRetryLoop ==
    pc \in {"read", "gate", "email", "webex", "persist"} /\ dispatch # "critical"

\* C14: whatever check_http_status returned for the endpoint (None, a code
\* below 500 or a code from 500 up), the number of login probes, the final
\* status, the alert decision and the persisted status are the same
\* functions of the probes' outcomes, of the status that was persisted and
\* of the throttle state: the reachability result occurs in none of them.
C14_ReachabilityIgnored ==
    \A r \in {None, 200, 500} :
      (http_status = r /\ PastRetryLoop) =>
        /\ probes = (IF current_status = "success"
                     THEN attempt + 1 ELSE MAX_RETRIES)
        /\ attempt = (IF current_status = "success"
                      THEN probes - 1 ELSE MAX_RETRIES)
        /\ Len(finals) > 0 /\ current_status = finals[Len(finals)]
        /\ gate.done =>
              /\ previous_status = read_last_status(state_file)
              /\ gate.changed <=> current_status # previous_status
              /\ gate.open <=> (gate.last = None
                                \/ gate.t - gate.last > ALERT_THROTTLE_PERIOD)
              /\ last_alert_time =
                    (IF gate.changed /\ gate.open THEN gate.t ELSE gate.last)
        /\ pc = "persist" =>
              (email_calls > 0 <=>
                 /\ gate.changed /\ gate.open
                 /\ (current_status \in FailureStatuses
                       \/ SEND_RECOVERY_ALERTS))

\* an endpoint reported down (code 500) whose login then succeeds at the
\* first probe, is compared with a persisted failure and sends a recovery alert
C14_Witness ==
    /\ pc = "persist"
    /\ http_status = 500
    /\ probes = 1
    /\ current_status = "success"
    /\ previous_status = "login_failed"
    /\ email_calls > 0
\* ------------------------------------------------------- the retry loop
\* C17: for an endpoint the retry loop makes at least one and at most
\* MAX_RETRIES probes; no probe follows a success; a probe that returns
\* login_failed or unreachable is followed by another one until MAX_RETRIES
\* are made; and the status compared with the persisted one, named in the
\* alert and written to the state file is the status of the last probe.
C17_RetryLoop ==
    /\ probes <= MAX_RETRIES
    /\ (pc = "probe" /\ probes > 0) =>
          /\ current_status \in FailureStatuses
          /\ probes < MAX_RETRIES
    /\ PastRetryLoop =>
          /\ probes >= 1
          /\ current_status \in FailureStatuses => probes = MAX_RETRIES
          /\ Len(finals) > 0 /\ current_status = finals[Len(finals)]
          /\ gate.done =>
                (gate.changed <=> finals[Len(finals)] # previous_status)
          /\ \A i \in EndpointAlerts :
                alerts[i].ep = idx => alerts[i].status = finals[Len(finals)]
    /\ (pc = "loop" /\ writes = 1) => state_file = finals[Len(finals)]

\* a connection error and one more failure, each followed by its sleep (1 s
\* then 2 s), then a success at the third probe, which is what is persisted
C17_Witness ==
    /\ pc = "loop"
    /\ writes = 1
    /\ probes = 3
    /\ conn_errors = 1
    /\ probe_sleep = 3
    /\ current_status = "success"
    /\ state_file = "success"
\* C19: once the comparison of line 396 is made for an endpoint,
\* last_alert_time is what it was before when the final status equals the
\* persisted one (should_send_alert() is not called), and is the time of the
\* comparison, later than any earlier value, when the status changed and the
\* throttle test passed, whether or not a channel is then attempted.
C19_TimestampFrame ==
    gate.done =>
        /\ ~gate.changed => last_alert_time = gate.last
        /\ (gate.changed /\ gate.open) =>
              /\ last_alert_time = gate.t
              /\ gate.last = None \/ gate.t > gate.last

\* a recovery with recovery alerts disabled: no channel is attempted, and the
\* timestamp set by an earlier endpoint of the run is moved forward
C19_Witness ==
    /\ pc = "persist"
    /\ gate.changed /\ gate.open
    /\ email_calls = 0 /\ webex_calls = 0
    /\ gate.last # None
    /\ last_alert_time = gate.t
    /\ gate.t > gate.last
\* ---------------------------------------------------------- termination
\* the steps an endpoint takes at most: the HEAD probe or the skip,
\* MAX_RETRIES login probes, the read, the comparison, ALERT_MAX_RETRIES
\* attempts on each of the two channels, and the write
EndpointSteps == MAX_RETRIES + 2 * ALERT_MAX_RETRIES + 4
\* the steps of the handler: its entry and the attempts on the two channels
HandlerSteps == 2 * ALERT_MAX_RETRIES + 1
\* the steps left at most when the loop of line 369 stands before entry i
LoopSteps(i) == (Len(LOGIN_URLS) + 1 - i) * EndpointSteps + 1 + HandlerSteps
\* an upper bound on the number of steps the run can still take
StepsLeft ==
    CASE pc = "exit" -> 0
      [] pc = "validate" -> LoopSteps(1) + 1
      [] pc = "handler" -> HandlerSteps
      [] pc = "email" /\ dispatch = "critical" ->
           2 * ALERT_MAX_RETRIES - alert_attempt
      [] pc = "webex" /\ dispatch = "critical" ->
           ALERT_MAX_RETRIES - alert_attempt
      [] pc = "loop" -> LoopSteps(idx)
      [] pc = "probe" ->
           LoopSteps(idx + 1) + (MAX_RETRIES - attempt)
             + 2 * ALERT_MAX_RETRIES + 3
      [] pc = "read" -> LoopSteps(idx + 1) + 2 * ALERT_MAX_RETRIES + 3
      [] pc = "gate" -> LoopSteps(idx + 1) + 2 * ALERT_MAX_RETRIES + 2
      [] pc = "email" /\ dispatch # "critical" ->
           LoopSteps(idx + 1) + 2 * ALERT_MAX_RETRIES - alert_attempt + 1
      [] pc = "webex" /\ dispatch # "critical" ->
           LoopSteps(idx + 1) + ALERT_MAX_RETRIES - alert_attempt + 1
      [] pc = "persist" -> LoopSteps(idx + 1) + 1

\* C18: every run ends.  For each endpoint at most MAX_RETRIES login probes
\* are made and at most 3 attempts on each channel; as long as the script
\* has not exited a step can be taken, and after the exit none; and every
\* step lowers StepsLeft, a natural number that is 0 at the exit, so no run
\* takes more than the StepsLeft of its first state, whatever fails.
C18_RunTerminates ==
    /\ [](/\ probes <= MAX_RETRIES
          /\ email_calls <= 3
          /\ webex_calls <= 3
          /\ StepsLeft >= 0
          /\ pc # "exit" <=> ENABLED Next)
    /\ [][StepsLeft' < StepsLeft]_vars

\* the run has ended after an endpoint used up its probes and the handler
\* used up its three attempts to send the critical e-mail
C18_Witness ==
    /\ pc = "exit"
    /\ HandlerRan
    /\ email_calls = 3
    /\ Len(finals) > 0
    /\ finals[Len(finals)] \in FailureStatuses
    /\ StepsLeft = 0
\* ------------------------------------------------- repeated invocations
\* SpecRuns starts the script again each time it has exited, as a scheduler
\* does: the configuration and the state file stay, everything else starts
\* anew (last_alert_time is None again, line 80).  obs.streak keeps, for each
\* entry of LOGIN_URLS, whether the entry is in a run of failures and whether
\* an alert naming it was attempted since that run of failures began.
NonEmptyUrls == {i \in 1..Len(LOGIN_URLS) : LOGIN_URLS[i] # ""}
\* the final status of entry e in the invocation that has just ended, "None"
\* if the invocation ended before reaching it
FinalOf(e) ==
    LET k == Cardinality({i \in NonEmptyUrls : i <= e}) IN
    IF e \in NonEmptyUrls /\ k <= Len(finals) THEN finals[k] ELSE "None"
AlertNames(e) == \E i \in EndpointAlerts : alerts[i].ep = e
NextStreak(e) ==
    CASE FinalOf(e) = "None" -> obs.streak[e]
      [] FinalOf(e) = "success" -> "none"
      [] AlertNames(e) -> "alerted"
      [] obs.streak[e] = "alerted" -> "alerted"
      [] OTHER -> "unalerted"

\* the first invocation ever (no state file yet), with a positive window
\* as the default of line 81 is, one probe per endpoint, no Webex channel
InitRuns ==
    /\ StartOfRun
    /\ state_file = "absent"
    /\ required_vars_set
    /\ MAX_RETRIES = 1
    /\ ALERT_THROTTLE_PERIOD = 60
    /\ ~WEBEX_WEBHOOK
    /\ obs = [op |-> "invocations",
              streak |-> [e \in 1..Len(LOGIN_URLS) |-> "none"]]

NextInvocation ==
    /\ pc = "exit"
    /\ obs' = [obs EXCEPT !.streak =
                  [e \in 1..Len(LOGIN_URLS) |-> NextStreak(e)]]
    /\ file_at_start' = state_file
    /\ pc' = "validate"
    /\ idx' = 1
    /\ http_status' = None
    /\ attempt' = 0
    /\ current_status' = "None"
    /\ detail' = ""
    /\ previous_status' = "None"
    /\ last_alert_time' = None
    /\ now' = 0
    /\ exit_code' = None
    /\ dispatch' = "none"
    /\ alert_attempt' = 0
    /\ alerts' = <<>>
    /\ email_calls' = 0
    /\ webex_calls' = 0
    /\ email_result' = "none"
    /\ webex_result' = "none"
    /\ probes' = 0
    /\ probe_sleep' = 0
    /\ reads' = 0
    /\ writes' = 0
    /\ restored' = FALSE
    /\ conn_errors' = 0
    /\ gate' = NoGate
    /\ finals' = <<>>
    /\ UNCHANGED <<LOGIN_URLS, required_vars_set, MAX_RETRIES,
                   ALERT_THROTTLE_PERIOD, SEND_RECOVERY_ALERTS, WEBEX_WEBHOOK,
                   state_file>>

NextRuns == Next \/ NextInvocation

\* the script runs on when started, and is started again after each exit
SpecRuns == InitRuns /\ [][NextRuns]_vars /\ WF_vars(NextRuns)

\* no invocation is cut short: the configuration is valid and no exception
\* reaches the handler of line 417
RegularRun == exit_code # 1 /\ pc # "handler" /\ ~HandlerRan
Unalerted(e) == e \in DOMAIN obs.streak /\ obs.streak[e] = "unalerted"

\* C20: across invocations none of which is cut short, an endpoint whose
\* final status is a failure in every invocation from some invocation on
\* does not stay for ever without an alert naming it: an alert naming it is
\* attempted in the invocation where its failures begin or in a later one.
C20_PersistingFailureAlerted ==
    \A e \in 1..MaxUrls :
        []RegularRun => []<>(~Unalerted(e))
====
